---- MODULE Spec2Model ----
(***************************************************************************)
(* Model of csv_to_mssql_sql.py: CSV -> SQL Server script (CREATE TABLE    *)
(* plus batched INSERT statements).                                        *)
(*                                                                         *)
(* Text is modelled as a sequence of one-character strings, so that        *)
(* escaping, un-escaping and character tests are computed character by     *)
(* character.  A Python value is a record [t, s, n]: t is its runtime      *)
(* type, s its text (for str) and n its number (ints; floats in tenths;    *)
(* bools as 0/1).                                                          *)
(***************************************************************************)
EXTENDS Integers, Sequences, FiniteSets, TLC

VARIABLES
    pc,          \* position of main(), or "call"/"returned" for a function call
    args,        \* parsed command line (argparse namespace)
    csv,         \* content of the source file as a table of raw cell texts
    delim,       \* main: delim
    df,          \* main: df (current dataframe)
    loaded,      \* the dataframe as pd.read_csv returned it (history)
    create_sql,  \* main: create_sql
    inserts_sql, \* main: inserts_sql
    out_file,    \* the output file: whether it was opened for writing, and its content
    exit_code,   \* process exit code, -1 while running
    stderr,      \* last diagnostic written to stderr
    inp,         \* argument of the function under call
    ret          \* its return value

vars == <<pc, args, csv, delim, df, loaded, create_sql, inserts_sql,
          out_file, exit_code, stderr, inp, ret>>

mainVars == <<args, csv, delim, df, loaded, create_sql, inserts_sql,
              out_file, exit_code, stderr>>

None == [t |-> "None", s |-> <<>>, n |-> 0]

(***************************************************************************)
(* Bounds                                                                  *)
(***************************************************************************)
MaxStrLen == 4      \* longest identifier / text value drawn
MaxInt == 12        \* largest number drawn as a numeric value

(***************************************************************************)
(* Text helpers (Python str methods)                                       *)
(***************************************************************************)
Digits == <<"0", "1", "2", "3", "4", "5", "6", "7", "8", "9">>

isdigit(ch) == \E i \in 1..Len(Digits) : Digits[i] = ch

\* s.replace(c, r): every occurrence of the character c replaced by r
RECURSIVE str_replace(_, _, _)
str_replace(s, c, r) ==
    IF s = <<>> THEN <<>>
    ELSE (IF Head(s) = c THEN r ELSE <<Head(s)>>) \o str_replace(Tail(s), c, r)

\* str(n) of a non-negative int
RECURSIVE IntStr(_)
IntStr(n) ==
    IF n < 10 THEN <<Digits[n + 1]>>
    ELSE IntStr(n \div 10) \o <<Digits[(n % 10) + 1]>>

\* str(x) of a non-negative float held in tenths: 15 -> "1.5", 70 -> "7.0"
FloatStr(n) == IntStr(n \div 10) \o <<".">> \o <<Digits[(n % 10) + 1]>>

(***************************************************************************)
(* Python values                                                           *)
(***************************************************************************)
Str(s) == [t |-> "str", s |-> s, n |-> 0]
NaN == [t |-> "float", s |-> <<"n", "a", "n">>, n |-> 0]
PyInt(n) == [t |-> "int", s |-> <<>>, n |-> n]
NpInt(n) == [t |-> "numpy.int64", s |-> <<>>, n |-> n]
Float(n) == [t |-> "float", s |-> <<>>, n |-> n]
PyBool(n) == [t |-> "bool", s |-> <<>>, n |-> n]
NpBool(n) == [t |-> "numpy.bool_", s |-> <<>>, n |-> n]

\* isinstance(val, float): Python floats and numpy.float64 (a float subclass)
is_float(val) == val.t = "float"

\* isinstance(val, int): Python ints and bools; numpy.int64 is not an int
is_int(val) == val.t \in {"int", "bool"}

\* pd.isna(val) on a scalar
isna(val) == val = None \/ val = NaN

\* str(val)
str(val) ==
    CASE val.t = "str" -> val.s
      [] val.t \in {"int", "numpy.int64"} -> IntStr(val.n)
      [] val.t = "float" -> IF val = NaN THEN val.s ELSE FloatStr(val.n)
      [] val.t \in {"bool", "numpy.bool_"} ->
            IF val.n = 1 THEN <<"T", "r", "u", "e">>
            ELSE <<"F", "a", "l", "s", "e">>
      [] OTHER -> <<"N", "o", "n", "e">>

NULL == <<"N", "U", "L", "L">>

(***************************************************************************)
(* bracket_ident, quote_value                                              *)
(***************************************************************************)
\* the name is wrapped as it is
bracket_ident_no_escape(name) == <<"[">> \o name \o <<"]">>

bracket_ident(name) ==
    <<"[">> \o str_replace(name, "]", <<"]", "]">>) \o <<"]">>

\* s.replace(c, r, 1): only the first occurrence
RECURSIVE replace_first(_, _, _)
replace_first(s, c, r) ==
    IF s = <<>> THEN <<>>
    ELSE IF Head(s) = c THEN r \o Tail(s)
    ELSE <<Head(s)>> \o replace_first(Tail(s), c, r)

\* only the first quote of the value is escaped
quote_value_first_only(val) ==
    IF val = None \/ (is_float(val) /\ isna(val)) THEN NULL
    ELSE IF isna(val) THEN NULL
    ELSE IF is_int(val) \/ is_float(val)
         THEN (IF is_int(val) THEN IntStr(val.n) ELSE str(val))
    ELSE <<"N", "'">> \o replace_first(str(val), "'", <<"'", "'">>) \o <<"'">>

quote_value(val) ==
    IF val = None \/ (is_float(val) /\ isna(val)) THEN NULL
    ELSE IF isna(val) THEN NULL
    ELSE IF is_int(val) \/ is_float(val)
         THEN (IF is_int(val) THEN IntStr(val.n) ELSE str(val))
    ELSE <<"N", "'">> \o str_replace(str(val), "'", <<"'", "'">>) \o <<"'">>

(***************************************************************************)
(* pandas: read_csv, dataframes, head, iterrows                            *)
(***************************************************************************)
T_NA == <<"N", "A">>
T_NaN == <<"N", "a", "N">>
T_null == <<"n", "u", "l", "l">>
T_NULL == <<"N", "U", "L", "L">>
T_True == <<"T", "r", "u", "e">>
T_False == <<"F", "a", "l", "s", "e">>

\* argparse default of --na
DefaultNa == {<<>>, T_NA, T_NaN, T_null, T_NULL}

\* strings pandas always reads as NaN (keep_default_na=True), besides na_values
PandasDefaultNa ==
    {<<>>, T_NA, T_NaN, T_null, T_NULL, <<"n", "a", "n">>, <<"N", "/", "A">>,
     <<"n", "/", "a">>, <<"N", "o", "n", "e">>, <<"#", "N", "/", "A">>}

IsIntText(s) == s # <<>> /\ \A i \in 1..Len(s) : isdigit(s[i])

\* digits '.' digit (one fractional digit is all the model draws)
IsFloatText(s) ==
    /\ Len(s) >= 3
    /\ s[Len(s) - 1] = "."
    /\ isdigit(s[Len(s)])
    /\ IsIntText(SubSeq(s, 1, Len(s) - 2))

IsBoolText(s) == s \in {T_True, T_False, <<"T", "R", "U", "E">>, <<"t", "r", "u", "e">>,
                        <<"F", "A", "L", "S", "E">>, <<"f", "a", "l", "s", "e">>}

DigitVal(ch) == CHOOSE d \in 0..9 : Digits[d + 1] = ch

RECURSIVE IntVal(_)
IntVal(s) == IF s = <<>> THEN 0 ELSE 10 * IntVal(SubSeq(s, 1, Len(s) - 1)) + DigitVal(s[Len(s)])

\* value of a numeric text in tenths
TenthsVal(s) ==
    IF IsIntText(s) THEN 10 * IntVal(s)
    ELSE 10 * IntVal(SubSeq(s, 1, Len(s) - 2)) + DigitVal(s[Len(s)])

\* one column as the C parser types it: numeric first, then bool, else object
read_csv_column(cells, na) ==
    LET is_null(s) == s \in (na \cup PandasDefaultNa)
        not_null(s) == ~is_null(s)
        nonnull == SelectSeq(cells, not_null)
        has_na == Len(nonnull) < Len(cells)
        is_num(s) == IsIntText(s) \/ IsFloatText(s)
    IN  IF Len(cells) = 0 THEN [dtype |-> "object", values |-> <<>>]
        ELSE IF (\A i \in 1..Len(nonnull) : IsIntText(nonnull[i])) /\ ~has_na
             THEN [dtype |-> "int64",
                   values |-> [i \in 1..Len(cells) |-> NpInt(IntVal(cells[i]))]]
        ELSE IF (\A i \in 1..Len(nonnull) : is_num(nonnull[i]))
             THEN [dtype |-> "float64",
                   values |-> [i \in 1..Len(cells) |->
                                 IF is_null(cells[i]) THEN NaN
                                 ELSE Float(TenthsVal(cells[i]))]]
        ELSE IF (\A i \in 1..Len(nonnull) : IsBoolText(nonnull[i])) /\ ~has_na
             THEN [dtype |-> "bool",
                   values |-> [i \in 1..Len(cells) |->
                                 NpBool(IF cells[i] \in {T_True, <<"T", "R", "U", "E">>,
                                                         <<"t", "r", "u", "e">>}
                                        THEN 1 ELSE 0)]]
        ELSE [dtype |-> "object",
              values |-> [i \in 1..Len(cells) |->
                            IF is_null(cells[i]) THEN NaN ELSE Str(cells[i])]]

NoFrame == [columns |-> <<>>, dtypes |-> <<>>, cols |-> <<>>, n |-> -1]

\* column j of a raw table
RawColumn(table, j) == [i \in 1..Len(table.rows) |-> table.rows[i][j]]

\* na_values is not passed on: only the pandas defaults are null
read_csv_ignore_na(table, na) ==
    LET col(j) == read_csv_column(RawColumn(table, j), {})
    IN [columns |-> table.header,
        dtypes |-> [j \in 1..Len(table.header) |-> col(j).dtype],
        cols |-> [j \in 1..Len(table.header) |-> col(j).values],
        n |-> Len(table.rows)]

\* pd.read_csv(csv_path, ..., na_values=args.na)
read_csv(table, na) ==
    LET col(j) == read_csv_column(RawColumn(table, j), na)
    IN [columns |-> table.header,
        dtypes |-> [j \in 1..Len(table.header) |-> col(j).dtype],
        cols |-> [j \in 1..Len(table.header) |-> col(j).values],
        n |-> Len(table.rows)]

Min(a, b) == IF a <= b THEN a ELSE b
Max(a, b) == IF a >= b THEN a ELSE b

\* df.head(k): the first k rows, or all but the last -k rows when k < 0
head(frame, k) ==
    LET m == IF k >= 0 THEN Min(k, frame.n) ELSE Max(0, frame.n + k)
    IN [frame EXCEPT !.cols = [j \in 1..Len(frame.cols) |-> SubSeq(frame.cols[j], 1, m)],
                     !.n = m]

\* df[col]
Series(frame, j) == [dtype |-> frame.dtypes[j], values |-> frame.cols[j]]

\* dtype of the row Series df.iterrows() yields: the common dtype of the columns
RowDtype(frame) ==
    LET ds == {frame.dtypes[j] : j \in 1..Len(frame.dtypes)}
    IN  IF Cardinality(ds) = 1 THEN CHOOSE d \in ds : TRUE
        ELSE IF ds = {"int64", "float64"} THEN "float64"
        ELSE "object"

\* row i as df.iterrows() yields it: the values cast to the row's dtype
iterrows(frame, i) ==
    LET rd == RowDtype(frame)
        cast(v) ==
            IF rd = "float64" /\ v.t = "numpy.int64" THEN Float(10 * v.n)
            ELSE IF rd = "object" /\ v.t = "numpy.int64" THEN PyInt(v.n)
            ELSE IF rd = "object" /\ v.t = "numpy.bool_" THEN PyBool(v.n)
            ELSE v
    IN [j \in 1..Len(frame.cols) |-> cast(frame.cols[j][i])]

(***************************************************************************)
(* detect_type                                                             *)
(***************************************************************************)
SQL_TYPE_MAP ==
    [int |-> "BIGINT", float |-> "FLOAT", bool |-> "BIT", datetime |-> "DATETIME2",
     date |-> "DATE", time |-> "TIME", string |-> "NVARCHAR(MAX)"]

SampleSize == 100

looks_like_date(s) ==
    /\ \E i \in 1..Len(s) : s[i] \in {"-", "/"}
    /\ \E i \in 1..Len(s) : isdigit(s[i])

looks_like_time(s) ==
    /\ Cardinality({i \in 1..Len(s) : s[i] = ":"}) >= 1
    /\ \E i \in 1..Len(s) : isdigit(s[i])

\* sample.map(looks_like_date), sample.map(looks_like_time)
map_looks_like_date(sample) == [i \in 1..Len(sample) |-> looks_like_date(sample[i])]
map_looks_like_time(sample) == [i \in 1..Len(sample) |-> looks_like_time(sample[i])]

\* flags.mean() > 0.9, with the mean as the exact ratio of TRUE flags: the
\* quotient of two ints <= 100 rounds to the double 0.9 exactly when the
\* ratio is 9/10, so the float comparison agrees with the exact one.
MeanAbove90(flags) ==
    10 * Cardinality({i \in 1..Len(flags) : flags[i]}) > 9 * Len(flags)

\* flags.mean() >= 0.9
MeanAtLeast90(flags) ==
    10 * Cardinality({i \in 1..Len(flags) : flags[i]}) >= 9 * Len(flags)

\* series.dropna().astype(str).head(100)
SampleNonNull(series) ==
    LET present(v) == ~isna(v)
        kept == SelectSeq(series.values, present)
        strs == [i \in 1..Len(kept) |-> str(kept[i])]
    IN SubSeq(strs, 1, Min(SampleSize, Len(strs)))

\* the thresholds compare with >= 0.9
detect_type_ge(series) ==
    IF series.dtype = "int64" THEN SQL_TYPE_MAP["int"]
    ELSE IF series.dtype = "float64" THEN SQL_TYPE_MAP["float"]
    ELSE IF series.dtype = "bool" THEN SQL_TYPE_MAP["bool"]
    ELSE IF series.dtype = "datetime64[ns]" THEN SQL_TYPE_MAP["datetime"]
    ELSE LET sample_non_null == SampleNonNull(series)
         IN IF series.dtype = "object" /\ Len(sample_non_null) # 0
                /\ MeanAtLeast90(map_looks_like_date(sample_non_null))
            THEN SQL_TYPE_MAP["date"]
            ELSE IF series.dtype = "object" /\ Len(sample_non_null) # 0
                    /\ MeanAtLeast90(map_looks_like_time(sample_non_null))
            THEN SQL_TYPE_MAP["time"]
            ELSE SQL_TYPE_MAP["string"]

detect_type(series) ==
    IF series.dtype = "int64" THEN SQL_TYPE_MAP["int"]
    ELSE IF series.dtype = "float64" THEN SQL_TYPE_MAP["float"]
    ELSE IF series.dtype = "bool" THEN SQL_TYPE_MAP["bool"]
    ELSE IF series.dtype = "datetime64[ns]" THEN SQL_TYPE_MAP["datetime"]
    ELSE LET sample_non_null == SampleNonNull(series)
         IN IF series.dtype = "object" /\ Len(sample_non_null) # 0
                /\ MeanAbove90(map_looks_like_date(sample_non_null))
            THEN SQL_TYPE_MAP["date"]
            ELSE IF series.dtype = "object" /\ Len(sample_non_null) # 0
                    /\ MeanAbove90(map_looks_like_time(sample_non_null))
            THEN SQL_TYPE_MAP["time"]
            ELSE SQL_TYPE_MAP["string"]

(***************************************************************************)
(* build_create_table, build_inserts                                       *)
(***************************************************************************)
\* The statement text is kept structured: the column list of CREATE TABLE as
\* <<identifier, type>> pairs, an INSERT as its identifier list and its value
\* tuples, a tuple as the list of literals that ", ".join puts between ( ).
build_create_table(frame, table_name) ==
    [table |-> table_name,
     cols_sql |-> [j \in 1..Len(frame.columns) |->
                     <<bracket_ident(frame.columns[j]), detect_type(Series(frame, j))>>]]

DefaultBatchSize == 1000

InsertStatement(frame, table_name, batch) ==
    [table |-> table_name,
     col_idents |-> [j \in 1..Len(frame.columns) |-> bracket_ident(frame.columns[j])],
     tuples |-> batch]

\* the for loop of build_inserts from row i on, and the flush after it
RECURSIVE build_inserts_loop(_, _, _, _, _, _)
build_inserts_loop(frame, table_name, batch_size, i, batch, statements) ==
    IF i > frame.n
    THEN IF batch # <<>>
         THEN Append(statements, InsertStatement(frame, table_name, batch))
         ELSE statements
    ELSE LET row == iterrows(frame, i)
             values == [c \in 1..Len(frame.columns) |-> quote_value(row[c])]
             grown == Append(batch, values)
         IN IF Len(grown) >= batch_size
            THEN build_inserts_loop(frame, table_name, batch_size, i + 1, <<>>,
                    Append(statements, InsertStatement(frame, table_name, grown)))
            ELSE build_inserts_loop(frame, table_name, batch_size, i + 1, grown,
                                    statements)

\* the trailing partial batch is never flushed
build_inserts_no_flush(frame, table_name, batch_size) ==
    LET all == build_inserts_loop(frame, table_name, batch_size, 1, <<>>, <<>>)
    IN SubSeq(all, 1, frame.n \div batch_size)

build_inserts(frame, table_name, batch_size) ==
    build_inserts_loop(frame, table_name, batch_size, 1, <<>>, <<>>)

(***************************************************************************)
(* Function-call specifications: Init draws the argument, the action       *)
(* applies the function.                                                   *)
(***************************************************************************)
TextChars == {"a", "'", "]", "["}

Strings(maxLen) == UNION {[1..k -> TextChars] : k \in 0..maxLen}

Values ==
    {Str(s) : s \in Strings(MaxStrLen)}
    \cup {None, NaN}
    \cup {PyInt(n) : n \in 0..MaxInt} \cup {NpInt(n) : n \in 0..MaxInt}
    \cup {Float(n) : n \in 0..MaxInt}
    \cup {PyBool(n) : n \in 0..1} \cup {NpBool(n) : n \in 0..1}

EmptyTable == [header |-> <<>>, rows |-> <<>>]
NoFile == [exists |-> "?", parses |-> "?", table |-> EmptyTable]
NoArgs == [table |-> "dbo.T", delimiter |-> None, na |-> DefaultNa, limit |-> None]
NoCreate == [table |-> "", cols_sql |-> <<>>]
NoOutput == [written |-> FALSE, header |-> <<>>, create |-> NoCreate,
             comment |-> "", inserts |-> <<>>]

MainIdle ==
    /\ args = NoArgs /\ csv = NoFile /\ delim = "" /\ df = NoFrame /\ loaded = NoFrame
    /\ create_sql = NoCreate /\ inserts_sql = <<>>
    /\ out_file = NoOutput /\ exit_code = -1 /\ stderr = ""

InitText ==
    /\ pc = "call"
    /\ \/ inp \in {[fn |-> "bracket_ident", name |-> s] : s \in Strings(MaxStrLen)}
       \/ inp \in {[fn |-> "quote_value", val |-> v] : v \in Values}
    /\ ret = <<>>
    /\ MainIdle

CallBracketIdent ==
    /\ pc = "call" /\ inp.fn = "bracket_ident"
    /\ ret' = bracket_ident(inp.name)
    /\ pc' = "returned"
    /\ UNCHANGED <<inp, mainVars>>

CallQuoteValue ==
    /\ pc = "call" /\ inp.fn = "quote_value"
    /\ ret' = quote_value(inp.val)
    /\ pc' = "returned"
    /\ UNCHANGED <<inp, mainVars>>

NextText == CallBracketIdent \/ CallQuoteValue

SpecText == InitText /\ [][NextText]_vars

(***************************************************************************)
(* build_inserts on a drawn dataframe and batch size                       *)
(***************************************************************************)
MaxInsRows == 4     \* most rows of a dataframe given to build_inserts
MaxBatch == 3       \* largest small batch size drawn (besides the default)

InsCells == {<<"1">>, <<"2">>, <<"x", "'">>}

InsTables ==
    {[header |-> << <<"i", "d">> >>, rows |-> r] :
        r \in UNION {[1..k -> [1..1 -> InsCells]] : k \in 0..MaxInsRows}}

InitInserts ==
    /\ pc = "call"
    /\ inp \in {[fn |-> "build_inserts", table |-> tb, frame |-> read_csv(tb, DefaultNa),
                 batch_size |-> b] :
                   tb \in InsTables, b \in (1..MaxBatch) \cup {DefaultBatchSize}}
    /\ ret = <<>>
    /\ MainIdle

CallBuildInserts ==
    /\ pc = "call" /\ inp.fn = "build_inserts"
    /\ ret' = build_inserts(inp.frame, "dbo.T", inp.batch_size)
    /\ pc' = "returned"
    /\ UNCHANGED <<inp, mainVars>>

NextInserts == CallBuildInserts

SpecInserts == InitInserts /\ [][NextInserts]_vars

(***************************************************************************)
(* detect_type on a drawn column.  The column is drawn as three runs of    *)
(* equal cells, so that samples of 10 and of more than 100 values with a   *)
(* chosen match rate are among the inputs.                                 *)
(***************************************************************************)
MaxRun == 10        \* longest first / second run, before scaling
MaxLastRun == 1     \* longest third run, before scaling
RunScale == 10      \* the run lengths are drawn once as is, once times this

T_Date == <<"1", "-", "2">>
T_Time == <<"1", ":", "2">>
T_Stamp == <<"1", "/", "2", " ", "3", ":", "4">>
T_Word == <<"a", "-", ":">>

DetectCells == {<<>>, T_Date, T_Time, T_Stamp, T_Word, <<"7">>}

Rep(cell, k) == [i \in 1..k |-> cell]

InitDetect ==
    /\ pc = "call"
    /\ inp \in {[fn |-> "detect_type",
                 cells |-> Rep(c1, n1 * sc) \o Rep(c2, n2 * sc) \o Rep(c3, n3 * sc)] :
                   c1 \in DetectCells, c2 \in DetectCells, c3 \in DetectCells,
                   n1 \in 0..MaxRun, n2 \in 0..MaxRun, n3 \in 0..MaxLastRun,
                   sc \in {1, RunScale}}
    /\ ret = <<>>
    /\ MainIdle

\* main 113 and 77: the column as read_csv types it, then detect_type
CallDetectType ==
    /\ pc = "call" /\ inp.fn = "detect_type"
    /\ ret' = detect_type(read_csv_column(inp.cells, DefaultNa))
    /\ pc' = "returned"
    /\ UNCHANGED <<inp, mainVars>>

NextDetect == CallDetectType

SpecDetect == InitDetect /\ [][NextDetect]_vars

(***************************************************************************)
(* main                                                                    *)
(***************************************************************************)
MaxRows == 2        \* most data rows of the source file
MaxLimit == 3       \* largest --limit drawn

MainHeader == << <<"i", "d">>, <<"a", "]", "b">> >>

\* the cells drawn for the first and for the second column
IdCells == {<<>>, <<"7">>, <<"o", "'", "k">>}
NameCells == {T_NA, <<"7">>, <<"o", "'", "k">>}

MainRows == {<<a, b>> : a \in IdCells, b \in NameCells}

MainTables ==
    {[header |-> MainHeader, rows |-> r] :
        r \in UNION {[1..k -> MainRows] : k \in 0..MaxRows}}

SniffableDelimiters == {",", ";", "\t", "|"}

\* bool(x) of an argparse value
truthy(val) ==
    CASE val.t = "None" -> FALSE
      [] val.t = "str" -> val.s # <<>>
      [] OTHER -> val.n # 0

\* argparse: --delimiter absent or a character; --na absent or given;
\* --limit absent or an int (type=int accepts negative numbers)
Init ==
    /\ pc = "exists"
    /\ args \in {[table |-> "dbo.T", delimiter |-> d, na |-> na, limit |-> l] :
                   d \in {None, Str(<<";">>)},
                   na \in {DefaultNa, {T_NA, <<"7">>}},
                   l \in {None} \cup {PyInt(k) : k \in -1..MaxLimit}}
    /\ csv = NoFile /\ delim = "" /\ df = NoFrame /\ loaded = NoFrame
    /\ create_sql = NoCreate /\ inserts_sql = <<>>
    /\ out_file = NoOutput /\ exit_code = -1 /\ stderr = ""
    /\ inp = <<>> /\ ret = <<>>

\* 107-110
CheckExists ==
    /\ pc = "exists"
    /\ \/ /\ csv' = [csv EXCEPT !.exists = "no"]
          /\ stderr' = "CSV not found"
          /\ exit_code' = 1
          /\ pc' = "exited"
       \/ /\ csv' = [csv EXCEPT !.exists = "yes"]
          /\ pc' = "sniff"
          /\ UNCHANGED <<stderr, exit_code>>
    /\ UNCHANGED <<args, delim, df, loaded, create_sql, inserts_sql, out_file, inp, ret>>

\* 111 with sniff_delimiter (23-30).  open() and f.read(2048) stand outside
\* the try: an unreadable file or a sample that is not UTF-8 raises out of
\* sniff_delimiter and, uncaught in main, ends the process with a traceback
\* and exit code 1.  csv.Sniffer().sniff raising is caught and gives ",".
SniffDelimiter ==
    /\ pc = "sniff"
    /\ IF truthy(args.delimiter)
       THEN /\ delim' = args.delimiter.s[1]
            /\ pc' = "read"
            /\ UNCHANGED <<stderr, exit_code>>
       ELSE \/ /\ stderr' = "Traceback: sniff_delimiter"
               /\ exit_code' = 1
               /\ pc' = "exited"
               /\ UNCHANGED delim
            \/ /\ delim' \in SniffableDelimiters
               /\ pc' = "read"
               /\ UNCHANGED <<stderr, exit_code>>
            \/ /\ delim' = ","
               /\ pc' = "read"
               /\ UNCHANGED <<stderr, exit_code>>
    /\ UNCHANGED <<args, csv, df, loaded, create_sql, inserts_sql, out_file, inp, ret>>

\* a failed read is swallowed and the run goes on with an empty frame
ReadCsvSwallow ==
    /\ pc = "read"
    /\ \/ /\ csv' = [csv EXCEPT !.parses = "no"]
          /\ stderr' = "Failed to read CSV"
          /\ df' = [NoFrame EXCEPT !.n = 0]
          /\ pc' = "limit"
          /\ UNCHANGED <<loaded, exit_code>>
       \/ \E tb \in MainTables :
             /\ csv' = [csv EXCEPT !.parses = "yes", !.table = tb]
             /\ df' = read_csv(tb, args.na)
             /\ loaded' = df'
             /\ pc' = "limit"
             /\ UNCHANGED <<stderr, exit_code>>
    /\ UNCHANGED <<args, delim, create_sql, inserts_sql, out_file, inp, ret>>

\* 112-116
ReadCsv ==
    /\ pc = "read"
    /\ \/ /\ csv' = [csv EXCEPT !.parses = "no"]
          /\ stderr' = "Failed to read CSV"
          /\ exit_code' = 1
          /\ pc' = "exited"
          /\ UNCHANGED <<df, loaded>>
       \/ \E tb \in MainTables :
             /\ csv' = [csv EXCEPT !.parses = "yes", !.table = tb]
             /\ df' = read_csv(tb, args.na)
             /\ loaded' = df'
             /\ pc' = "limit"
             /\ UNCHANGED <<stderr, exit_code>>
    /\ UNCHANGED <<args, delim, create_sql, inserts_sql, out_file, inp, ret>>

\* 117-118
ApplyLimit ==
    /\ pc = "limit"
    /\ df' = IF truthy(args.limit) THEN head(df, args.limit.n) ELSE df
    /\ pc' = "create"
    /\ UNCHANGED <<args, csv, delim, loaded, create_sql, inserts_sql, out_file,
                   exit_code, stderr, inp, ret>>

\* 122
BuildCreateTable ==
    /\ pc = "create"
    /\ create_sql' = build_create_table(df, args.table)
    /\ pc' = "inserts"
    /\ UNCHANGED <<args, csv, delim, df, loaded, inserts_sql, out_file,
                   exit_code, stderr, inp, ret>>

\* 123
BuildInserts ==
    /\ pc = "inserts"
    /\ inserts_sql' = build_inserts(df, args.table, DefaultBatchSize)
    /\ pc' = "write"
    /\ UNCHANGED <<args, csv, delim, df, loaded, create_sql, out_file,
                   exit_code, stderr, inp, ret>>

OutputHeader == <<"-- Generated for SQL Server (SSMS)", "-- Source: <csv_path.name>">>

\* the insert section is written whatever the number of rows
WriteOutputNoEmptyCheck ==
    /\ pc = "write"
    /\ \/ /\ stderr' = "Traceback: open(out_path)"
          /\ exit_code' = 1
          /\ pc' = "exited"
          /\ UNCHANGED out_file
       \/ /\ out_file' = [written |-> TRUE, header |-> OutputHeader,
                          create |-> create_sql, comment |-> "",
                          inserts |-> inserts_sql]
          /\ pc' = "print"
          /\ UNCHANGED <<stderr, exit_code>>
    /\ UNCHANGED <<args, csv, delim, df, loaded, create_sql, inserts_sql, inp, ret>>

\* 125-133: open(out_path, "w") may raise (uncaught: traceback, exit code 1);
\* otherwise the header, the CREATE TABLE block and the insert section are
\* written
WriteOutput ==
    /\ pc = "write"
    /\ \/ /\ stderr' = "Traceback: open(out_path)"
          /\ exit_code' = 1
          /\ pc' = "exited"
          /\ UNCHANGED out_file
       \/ /\ out_file' = [written |-> TRUE, header |-> OutputHeader,
                          create |-> create_sql,
                          comment |-> IF df.n = 0 THEN "-- No rows to insert." ELSE "",
                          inserts |-> IF df.n = 0 THEN <<>> ELSE inserts_sql]
          /\ pc' = "print"
          /\ UNCHANGED <<stderr, exit_code>>
    /\ UNCHANGED <<args, csv, delim, df, loaded, create_sql, inserts_sql, inp, ret>>

\* 135 and the normal end of the process
PrintAndExit ==
    /\ pc = "print"
    /\ exit_code' = 0
    /\ pc' = "exited"
    /\ UNCHANGED <<args, csv, delim, df, loaded, create_sql, inserts_sql, out_file,
                   stderr, inp, ret>>

Next ==
    \/ CheckExists
    \/ SniffDelimiter
    \/ ReadCsv
    \/ ApplyLimit
    \/ BuildCreateTable
    \/ BuildInserts
    \/ WriteOutput
    \/ PrintAndExit

Spec == Init /\ [][Next]_vars

(***************************************************************************)
(* Readers of the emitted text, used to state the claims                   *)
(***************************************************************************)
\* the text between the first and the last character
Body(lit, skip) == SubSeq(lit, skip + 1, Len(lit) - 1)

\* scanning left to right, every occurrence of c is immediately followed by
\* a second c that pairs with it
RECURSIVE AllDoubled(_, _)
AllDoubled(b, c) ==
    IF b = <<>> THEN TRUE
    ELSE IF Head(b) = c
         THEN Len(b) >= 2 /\ b[2] = c /\ AllDoubled(SubSeq(b, 3, Len(b)), c)
    ELSE AllDoubled(Tail(b), c)

\* b.replace(cc, c): each doubled c becomes one c
RECURSIVE Undouble(_, _)
Undouble(b, c) ==
    IF b = <<>> THEN <<>>
    ELSE IF Head(b) = c /\ Len(b) >= 2 /\ b[2] = c
         THEN <<c>> \o Undouble(SubSeq(b, 3, Len(b)), c)
    ELSE <<Head(b)>> \o Undouble(Tail(b), c)

Count(s, c) == Cardinality({i \in 1..Len(s) : s[i] = c})

IsStringLiteral(lit) ==
    /\ Len(lit) >= 3
    /\ lit[1] = "N" /\ lit[2] = "'" /\ lit[Len(lit)] = "'"

\* the text a literal stands for: the un-escaped body of N'...', or the bare
\* literal
LiteralText(lit) ==
    IF IsStringLiteral(lit) THEN Undouble(Body(lit, 2), "'") ELSE lit

\* C2: a non-null, non-numeric value is rendered N'...' with every single
\* quote of the value doubled in the body, and un-escaping the body gives
\* the value back.
C2_QuoteRoundTrip ==
    (pc = "returned" /\ inp.fn = "quote_value"
        /\ ~isna(inp.val) /\ ~is_int(inp.val) /\ ~is_float(inp.val))
    => /\ IsStringLiteral(ret)
       /\ AllDoubled(Body(ret, 2), "'")
       /\ Count(Body(ret, 2), "'") = 2 * Count(str(inp.val), "'")
       /\ Undouble(Body(ret, 2), "'") = str(inp.val)

C2_Witness ==
    /\ pc = "returned" /\ inp.fn = "quote_value"
    /\ inp.val.t = "str" /\ Count(inp.val.s, "'") >= 2
    /\ IsStringLiteral(ret)

\* C4: bracket_ident wraps the name in [ and ], doubles every ] of the name,
\* the body holds no un-doubled ], and un-doubling the body gives the name.
C4_BracketIdent ==
    (pc = "returned" /\ inp.fn = "bracket_ident")
    => /\ Len(ret) >= 2 /\ ret[1] = "[" /\ ret[Len(ret)] = "]"
       /\ AllDoubled(Body(ret, 1), "]")
       /\ Count(Body(ret, 1), "]") = 2 * Count(inp.name, "]")
       /\ Undouble(Body(ret, 1), "]") = inp.name

C4_Witness ==
    /\ pc = "returned" /\ inp.fn = "bracket_ident"
    /\ Count(inp.name, "]") >= 2 /\ Count(inp.name, "[") >= 1
    /\ Len(ret) = Len(inp.name) + 2 + Count(inp.name, "]")

\* the value tuples of all statements, in emission order
RECURSIVE AllTuples(_)
AllTuples(statements) ==
    IF statements = <<>> THEN <<>>
    ELSE Head(statements).tuples \o AllTuples(Tail(statements))

CeilDiv(n, b) == (n + b - 1) \div b

\* C1: for N rows and batch size B >= 1, build_inserts emits ceil(N / B)
\* INSERT blocks, and the tuples of all blocks in emission order are the rows
\* in input order, one tuple per row.
C1_Batching ==
    (pc = "returned" /\ inp.fn = "build_inserts")
    => LET rows == inp.table.rows
           tuples == AllTuples(ret)
       IN /\ Len(ret) = CeilDiv(Len(rows), inp.batch_size)
          /\ Len(tuples) = Len(rows)
          /\ \A i \in 1..Len(rows) :
                /\ Len(tuples[i]) = 1
                /\ LiteralText(tuples[i][1]) = rows[i][1]

C1_Witness ==
    /\ pc = "returned" /\ inp.fn = "build_inserts"
    /\ inp.batch_size = 2 /\ Len(inp.table.rows) = 3
    /\ inp.table.rows[1] # inp.table.rows[2] /\ inp.table.rows[2] # inp.table.rows[3]
    /\ Len(ret) = 2 /\ Len(ret[1].tuples) = 2 /\ Len(ret[2].tuples) = 1

\* the first 100 non-null cells of a raw column (DefaultNa sentinels are null)
RawSample(cells) ==
    LET present(s) == s \notin PandasDefaultNa
        kept == SelectSeq(cells, present)
    IN SubSeq(kept, 1, Min(100, Len(kept)))

DateLike(sample) == Cardinality({i \in 1..Len(sample) : looks_like_date(sample[i])})
TimeLike(sample) == Cardinality({i \in 1..Len(sample) : looks_like_time(sample[i])})

\* the column is one read_csv leaves as text (dtype object)
IsTextColumn(cells) == read_csv_column(cells, DefaultNa).dtype = "object"

\* C9 as claimed: a column with zero non-null values is typed NVARCHAR(MAX).
C9_AllNullIsText ==
    (pc = "returned" /\ inp.fn = "detect_type" /\ Len(RawSample(inp.cells)) = 0)
    => ret = "NVARCHAR(MAX)"

\* C10 as claimed: a text column is Date exactly when its sample is non-empty
\* and at least 90% of it is date-like, else Time exactly when at least 90%
\* of it is time-like, else Text.
C10_AtLeast90 ==
    (pc = "returned" /\ inp.fn = "detect_type" /\ IsTextColumn(inp.cells))
    => LET sample == RawSample(inp.cells)
           date == Len(sample) > 0
                   /\ 10 * DateLike(sample) >= 9 * Len(sample)
           time == Len(sample) > 0
                   /\ 10 * TimeLike(sample) >= 9 * Len(sample)
       IN ret = (IF date THEN "DATE" ELSE IF time THEN "TIME" ELSE "NVARCHAR(MAX)")

\* C10 as amended: a text column is Date exactly when its sample (the first
\* 100 non-null values) is non-empty and strictly more than 90% of it is
\* date-like; otherwise Time exactly when strictly more than 90% of it is
\* time-like; otherwise Text.
C10_MoreThan90 ==
    (pc = "returned" /\ inp.fn = "detect_type" /\ IsTextColumn(inp.cells))
    => LET sample == RawSample(inp.cells)
           date == Len(sample) > 0
                   /\ 10 * DateLike(sample) > 9 * Len(sample)
           time == Len(sample) > 0
                   /\ 10 * TimeLike(sample) > 9 * Len(sample)
       IN ret = (IF date THEN "DATE" ELSE IF time THEN "TIME" ELSE "NVARCHAR(MAX)")

\* a text column whose sample is date-like at exactly 90% and is typed Text
C10_Witness ==
    /\ pc = "returned" /\ inp.fn = "detect_type" /\ IsTextColumn(inp.cells)
    /\ Len(RawSample(inp.cells)) = 10
    /\ DateLike(RawSample(inp.cells)) = 9
    /\ TimeLike(RawSample(inp.cells)) = 0
    /\ ret = "NVARCHAR(MAX)"

\* the value tuples the output file holds, in order
WrittenTuples == AllTuples(out_file.inserts)

\* the literals of row i of a frame, as build_inserts renders them
RowTuple(frame, i) == [c \in 1..Len(frame.columns) |-> quote_value(iterrows(frame, i)[c])]

\* C3: every emitted cell whose raw text is one of the configured NULL
\* sentinels (args.na) is the unquoted keyword NULL in its tuple, whatever the
\* type of its column; every row of the dataframe has its tuple.
C3_SentinelIsNull ==
    (out_file.written /\ df.n > 0)
    => /\ Len(WrittenTuples) = df.n
       /\ \A i \in 1..df.n : \A j \in 1..Len(csv.table.header) :
             csv.table.rows[i][j] \in args.na => WrittenTuples[i][j] = NULL

\* --na NA 7: the sentinels of a text column and of an all-null column are
\* written as NULL
C3_Witness ==
    /\ out_file.written /\ df.n = 2
    /\ args.na = {T_NA, <<"7">>}
    /\ csv.table.rows[1] = << <<"7">>, T_NA >>
    /\ csv.table.rows[2] = << <<"o", "'", "k">>, <<"7">> >>
    /\ WrittenTuples[1] = <<NULL, NULL>>
    /\ WrittenTuples[2][2] = NULL

\* C5: with zero rows the output holds the CREATE TABLE block and the
\* "No rows to insert" comment and no INSERT statement, and the run ends with
\* exit code 0 once the file is written; no INSERT statement of the output
\* has an empty tuple list.
C5_EmptyDataset ==
    /\ (out_file.written /\ df.n = 0)
       => /\ out_file.create = build_create_table(df, args.table)
          /\ Len(out_file.create.cols_sql) = Len(csv.table.header)
          /\ out_file.comment = "-- No rows to insert."
          /\ out_file.inserts = <<>>
    /\ (pc = "exited" /\ out_file.written /\ df.n = 0) => exit_code = 0
    /\ \A k \in 1..Len(out_file.inserts) : out_file.inserts[k].tuples # <<>>
    /\ (out_file.written /\ df.n > 0)
       => out_file.comment = "" /\ out_file.inserts # <<>>

C5_Witness ==
    /\ pc = "exited" /\ exit_code = 0
    /\ loaded.n = 0 /\ df.n = 0
    /\ out_file.written /\ out_file.comment = "-- No rows to insert."
    /\ Len(out_file.create.cols_sql) = 2

\* C6: a missing or unparsable source file ends the run with exit code 1 and
\* no output file; the output file is written only after a successful load;
\* exit code 0 only after the output file was written.
C6_NoOutputOnLoadFailure ==
    /\ (csv.exists = "no" \/ csv.parses = "no")
       => (pc = "exited" /\ exit_code = 1 /\ ~out_file.written)
    /\ out_file.written => (csv.parses = "yes" /\ loaded.n >= 0)
    /\ exit_code = 0 => out_file.written

C6_Witness ==
    /\ pc = "exited" /\ csv.exists = "yes" /\ csv.parses = "no"
    /\ exit_code = 1 /\ stderr = "Failed to read CSV" /\ ~out_file.written

\* C7 as claimed: for an existing source file no exception escapes the
\* sniffing step: the run reaches the load step with a single delimiter
\* character and nothing on stderr.
C7_SniffNeverRaises ==
    (csv.exists = "yes" /\ csv.parses = "?" /\ pc # "sniff")
    => /\ pc = "read"
       /\ stderr = ""
       /\ delim \in SniffableDelimiters

\* C8 as claimed: with --limit N, N >= 0, the output holds exactly min(N, R)
\* tuples, those of the first min(N, R) rows in order (none for N = 0);
\* without --limit it holds all R rows.
C8_LimitCaps ==
    (out_file.written /\ (args.limit = None \/ args.limit.n >= 0))
    => LET want == IF args.limit = None THEN loaded.n
                   ELSE Min(args.limit.n, loaded.n)
       IN /\ Len(WrittenTuples) = want
          /\ \A i \in 1..want : WrittenTuples[i] = RowTuple(loaded, i)
          /\ want = 0 => out_file.inserts = <<>>

====
